---- MODULE Spec2Model ----
(***************************************************************************)
(* Model of pkg/kustoutils/utils.go: a KustoCluster and its operations     *)
(* ListDatabases, AquireTargets, CreateExecConfiguration, Execute and the  *)
(* helper ClusterNameFromURI.                                              *)
(*                                                                         *)
(* One call is in flight at a time (the operations are synchronous).  The  *)
(* collaborators the code calls out to (the Mgmt query and its row         *)
(* iterator, the webhook client, the schema file store, the delta-kusto    *)
(* wrapper and runner) are the environment: each of their outcomes is a    *)
(* nondeterministic choice.  Go strings that the code inspects character   *)
(* by character (regular expressions, database names, URIs) are sequences  *)
(* of one-character strings; a nil slice and an empty slice are both <<>>. *)
(***************************************************************************)
EXTENDS Integers, Sequences, FiniteSets

\* ------------------------------------------------------------------ bounds

\* Longest regular expression handed to ListDatabases.
MaxPatLen == 2
\* Most callbacks (data rows and inline errors) one row iterator delivers.
MaxRows == 2

\* ------------------------------------------------------------- input sets

PatChars == {"a", "*", "^", "("}

RECURSIVE SeqsUpTo(_, _)
SeqsUpTo(S, n) ==
    IF n = 0 THEN {<<>>}
    ELSE LET shorter == SeqsUpTo(S, n - 1)
         IN  shorter \cup {Append(s, c) : s \in {t \in shorter : Len(t) = n - 1}, c \in S}

Patterns == SeqsUpTo(PatChars, MaxPatLen)

\* Database names a cluster may hold: one name is a substring of another.
DBNames == {<<"a">>, <<"a", "b">>, <<"b">>}

\* Lists given as filter.DBS or returned by the webhook: unsorted, repeated.
DBLists == {<<>>, <<<<"b">>, <<"a">>, <<"b">>>>}

Hooks == {"", "http://hook"}
Labels == {"", "prod"}

Https == <<"h", "t", "t", "p", "s", ":", "/", "/">>
Http == <<"h", "t", "t", "p", ":", "/", "/">>
Fabrikam == <<"f", "a", "b", "r", "i", "k", "a", "m">>
KustoNet == <<".", "k", "u", "s", "t", "o", ".", "n", "e", "t">>

URIs == { Https \o Fabrikam \o KustoNet,
          Https \o Fabrikam,
          Fabrikam \o KustoNet,
          Http \o Fabrikam \o KustoNet }

FileRefs == {"", "/tmp/f1", "/tmp/f2"}

CfgMaps == { [k \in {"kql"} |-> ".create table T (x:int)"],
             [k \in {"sql"} |-> "create table T"] }

\* ----------------------------------------------------------------- errors

NoErr == "nil"
ErrRegexp == "regexp: syntax error"
ErrMgmt == "mgmt query failed"
ErrIter == "row iteration failed"
ErrInline == "inline row error"
ErrWebhook == "webhook query failed"
ErrNoKql == "no kql found in configmap"
ErrStore == "store kql failed"
ErrGen == "delta-kusto config failed"
ErrApply == "delta-kusto run failed"

\* ------------------------------------------------------ regular expressions

\* regexp.Compile on the alphabet PatChars: a "(" is never closed, a "*" needs
\* an operand before it, and Perl syntax refuses a stacked "**".
regexpCompileOK(expression) ==
    /\ \A i \in 1..Len(expression) : expression[i] # "("
    /\ \A i \in 1..Len(expression) :
          expression[i] = "*" => (i > 1 /\ expression[i - 1] # "*")

\* Whether p[i..] matches a prefix of s[j..].  "^" asserts the start of the
\* text and consumes nothing; x* is zero or more x; any other character is
\* itself.
RECURSIVE MatchAt(_, _, _, _)
MatchAt(p, i, s, j) ==
    IF i > Len(p) THEN TRUE
    ELSE LET starred == i < Len(p) /\ p[i + 1] = "*"
             nxt == IF starred THEN i + 2 ELSE i + 1
             charOk == j <= Len(s) /\ p[i] = s[j]
         IN  IF p[i] = "^"
             THEN (starred \/ j = 1) /\ MatchAt(p, nxt, s, j)
             ELSE IF starred
                  THEN MatchAt(p, nxt, s, j) \/ (charOk /\ MatchAt(p, i, s, j + 1))
                  ELSE charOk /\ MatchAt(p, nxt, s, j + 1)

\* Regexp.MatchString: the expression matches somewhere in the name.
MatchString(nameFilter, dbName) ==
    \E j \in 1..(Len(dbName) + 1) : MatchAt(nameFilter, 1, dbName, j)

\* --------------------------------------------------------------- strings

IsPrefixAt(s, sep, i) ==
    /\ i + Len(sep) - 1 <= Len(s)
    /\ \A k \in 1..Len(sep) : s[i + k - 1] = sep[k]

Contains(s, sep) == \E i \in 1..Len(s) : IsPrefixAt(s, sep, i)

\* strings.Split(s, sep) for a non-empty sep.
RECURSIVE Split(_, _)
Split(s, sep) ==
    IF ~Contains(s, sep) THEN <<s>>
    ELSE LET i == CHOOSE k \in 1..Len(s) :
                      IsPrefixAt(s, sep, k) /\ \A m \in 1..(k - 1) : ~IsPrefixAt(s, sep, m)
         IN  <<SubSeq(s, 1, i - 1)>> \o Split(SubSeq(s, i + Len(sep), Len(s)), sep)

\* ClusterNameFromURI: element [1] of the split on "https://", then element
\* [0] of the split on ".".  Indexing past the end of a slice is a run-time
\* panic (index out of range).
ClusterNameFromURI(uri) ==
    LET parts == Split(uri, Https)
    IN  IF Len(parts) < 2
        THEN [panic |-> TRUE, name |-> <<>>]
        ELSE [panic |-> FALSE, name |-> Split(parts[2], <<".">>)[1]]

\* ------------------------------------------------------------------ state

VARIABLES
    URI,        \* KustoCluster.URI
    op,         \* the method called on the cluster ("none" before the first call)
    pc,         \* position of that call
    ldState,    \* position of the ListDatabases call, "none" when there is none
    filter,     \* AquireTargets: the TargetFilter argument
    strategy,   \* AquireTargets: the branch of the if/else chain taken
    expression, \* ListDatabases: the expression argument
    dbs,        \* ListDatabases: the local slice dbs
    ret,        \* what the callee returned into AquireTargets' dbs, err
    out,        \* the names the call returned (targets.DBs, or the list)
    err,        \* the error the call returned
    events,     \* callbacks the row iterator delivered, in order
    mgmtRes,    \* outcome of Client.Mgmt: "none", "ok", "error"
    iterEnd,    \* how DoOnRowOrError ended: "none", "ok", "error"
    iter,       \* the row iterator: "none", "open", "stopped"
    stops,      \* calls of iter.Stop
    mgmtCalls,  \* calls of Client.Mgmt
    whCalls,    \* arguments of each PerformQuery call
    whRes,      \* outcome of PerformQuery: "none", "ok", "error"
    ceArgs,     \* CreateExecConfiguration: targets, cfgMap, failIfDataLoss
    storeRes,   \* what StoreKQLSchemaToFile returned, called = FALSE before
    genRes,     \* what wrapper.CreateExecConfiguration returned
    genArgs,    \* arguments of each wrapper.CreateExecConfiguration call
    config,     \* the ExecutionConfiguration returned / executed
    applyCalls, \* argument of each RunDeltaKusto call
    applyRes    \* outcome of RunDeltaKusto: "none", "ok", "error"

vars == <<URI, op, pc, ldState, filter, strategy, expression, dbs, ret, out, err,
          events, mgmtRes, iterEnd, iter, stops, mgmtCalls, whCalls, whRes,
          ceArgs, storeRes, genRes, genArgs, config, applyCalls, applyRes>>

ldVars == <<ldState, expression, dbs, events, mgmtRes, iterEnd, iter, stops, mgmtCalls>>
whVars == <<whCalls, whRes>>
ceVars == <<ceArgs, storeRes, genRes, genArgs, config>>
exVars == <<applyCalls, applyRes>>

NoFilter == [DB |-> <<>>, DBS |-> <<>>, Webhook |-> "", Label |-> ""]
NoRet == [dbs |-> <<>>, err |-> NoErr]
NoCall == [called |-> FALSE, ref |-> "", err |-> NoErr]
NoCeArgs == [DBs |-> <<>>, cfgMap |-> [k \in {} |-> ""], failIfDataLoss |-> FALSE]
\* schemav1alpha1.ExecutionConfiguration{}
EmptyConfig == [KQLFile |-> "", JobFile |-> ""]

Filters == [DB : Patterns, DBS : DBLists, Webhook : Hooks, Label : Labels]

\* NewKustoCluster: any URI is accepted, the client is the environment.
Init ==
    /\ URI \in URIs
    /\ op = "none"
    /\ pc = "done"
    /\ ldState = "none"
    /\ filter = NoFilter
    /\ strategy = "none"
    /\ expression = <<>>
    /\ dbs = <<>>
    /\ ret = NoRet
    /\ out = <<>>
    /\ err = NoErr
    /\ events = <<>>
    /\ mgmtRes = "none"
    /\ iterEnd = "none"
    /\ iter = "none"
    /\ stops = 0
    /\ mgmtCalls = 0
    /\ whCalls = <<>>
    /\ whRes = "none"
    /\ ceArgs = NoCeArgs
    /\ storeRes = NoCall
    /\ genRes = NoCall
    /\ genArgs = <<>>
    /\ config = EmptyConfig
    /\ applyCalls = <<>>
    /\ applyRes = "none"

\* A new call starts with fresh locals; the counters count per call.
FreshList(e) ==
    /\ ldState' = "compile"
    /\ expression' = e
    /\ dbs' = <<>>
    /\ events' = <<>>
    /\ mgmtRes' = "none"
    /\ iterEnd' = "none"
    /\ iter' = "none"
    /\ stops' = 0
    /\ mgmtCalls' = 0

NoList ==
    /\ ldState' = "none"
    /\ expression' = <<>>
    /\ dbs' = <<>>
    /\ events' = <<>>
    /\ mgmtRes' = "none"
    /\ iterEnd' = "none"
    /\ iter' = "none"
    /\ stops' = 0
    /\ mgmtCalls' = 0

NoTargets ==
    /\ filter' = NoFilter
    /\ strategy' = "none"
    /\ ret' = NoRet
    /\ whCalls' = <<>>
    /\ whRes' = "none"

NoExec ==
    /\ ceArgs' = NoCeArgs
    /\ storeRes' = NoCall
    /\ genRes' = NoCall
    /\ genArgs' = <<>>
    /\ config' = EmptyConfig
    /\ applyCalls' = <<>>
    /\ applyRes' = "none"

\* No call is in flight on the constructed cluster.  The cluster keeps nothing
\* from one call to the next (no method assigns a field of KustoCluster), so a
\* behaviour follows one call from construction to its return; only Execute
\* takes up what an earlier call returned.
Idle == pc = "done" /\ op = "none"

\* ------------------------------------------------------------ ListDatabases

RowEvents == {[row |-> TRUE, name |-> n] : n \in DBNames}
                 \cup {[row |-> FALSE, name |-> <<>>]}

\* The names of the data rows among the callbacks delivered.
DataRows(evs) ==
    LET rows == SelectSeq(evs, LAMBDA e : e.row)
    IN  [i \in 1..Len(rows) |-> rows[i].name]

\* The callback without its filter: every row's name is appended.
OnRowOrError_NoFilter(d, ev, nameFilter) ==
    IF ev.row THEN [dbs |-> Append(d, ev.name), err |-> NoErr]
    ELSE [dbs |-> d, err |-> NoErr]

\* The callback handing an inline error back, which ends the iteration.
OnRowOrError_AbortOnInline(d, ev, nameFilter) ==
    IF ev.row
    THEN [dbs |-> IF MatchString(nameFilter, ev.name) THEN Append(d, ev.name) ELSE d,
          err |-> NoErr]
    ELSE [dbs |-> d, err |-> ErrInline]

\* The callback given to DoOnRowOrError: a row's name is appended when the
\* expression matches it, an inline error is logged; it always returns nil.
OnRowOrError(d, ev, nameFilter) ==
    IF ev.row
    THEN [dbs |-> IF MatchString(nameFilter, ev.name) THEN Append(d, ev.name) ELSE d,
          err |-> NoErr]
    ELSE [dbs |-> d, err |-> NoErr]

\* A Compile error ignored: the listing goes on and queries the cluster.
CompileStep_FallBack(expr) == "mgmt"

\* What follows regexp.Compile: an error returns at once, nothing is queried.
CompileStep(expr) == IF regexpCompileOK(expr) THEN "mgmt" ELSE "fail"

\* The return after the iteration: nil and the error, or the names and nil.
ListResult(d, iterErr) ==
    IF iterErr # NoErr THEN [dbs |-> <<>>, err |-> iterErr]
    ELSE [dbs |-> d, err |-> NoErr]

\* iter.Stop() called on the successful return only.
StopsOnExit_OnlyOnSuccess(iterErr) == iterErr = NoErr

\* defer iter.Stop(): registered once Mgmt succeeded, runs on every return.
StopsOnExit(iterErr) == TRUE

\* ListDatabases returns r: to its caller AquireTargets, or as the call's result.
ListReturn(r) ==
    /\ ldState' = "returned"
    /\ ret' = r
    /\ IF op = "ListDatabases"
       THEN pc' = "done" /\ out' = r.dbs /\ err' = r.err
       ELSE pc' = "check" /\ UNCHANGED <<out, err>>

CallListDatabases(e) ==
    /\ Idle
    /\ op' = "ListDatabases"
    /\ pc' = "list"
    /\ FreshList(e)
    /\ NoTargets
    /\ NoExec
    /\ out' = <<>>
    /\ err' = NoErr
    /\ UNCHANGED URI

Compile ==
    /\ pc = "list" /\ ldState = "compile"
    /\ IF CompileStep(expression) = "fail"
       THEN ListReturn([dbs |-> <<>>, err |-> ErrRegexp])
       ELSE ldState' = "mgmt" /\ UNCHANGED <<pc, ret, out, err>>
    /\ UNCHANGED <<URI, op, filter, strategy, expression, dbs, events, mgmtRes,
                   iterEnd, iter, stops, mgmtCalls>>
    /\ UNCHANGED <<whVars, ceVars, exVars>>

Mgmt ==
    /\ pc = "list" /\ ldState = "mgmt"
    /\ mgmtCalls' = mgmtCalls + 1
    /\ \/ /\ mgmtRes' = "ok"
          /\ iter' = "open"
          /\ ldState' = "iter"
          /\ UNCHANGED <<pc, ret, out, err>>
       \/ /\ mgmtRes' = "error"
          /\ iter' = iter
          /\ ListReturn([dbs |-> <<>>, err |-> ErrMgmt])
    /\ UNCHANGED <<URI, op, filter, strategy, expression, dbs, events, iterEnd, stops>>
    /\ UNCHANGED <<whVars, ceVars, exVars>>

\* One callback of DoOnRowOrError; an error it returned would end the iteration.
RowCallback(ev) ==
    /\ pc = "list" /\ ldState = "iter"
    /\ Len(events) < MaxRows
    /\ LET r == OnRowOrError(dbs, ev, expression)
       IN  /\ dbs' = r.dbs
           /\ IF r.err = NoErr
              THEN UNCHANGED <<ldState, iterEnd>>
              ELSE ldState' = "defer" /\ iterEnd' = r.err
    /\ events' = Append(events, ev)
    /\ UNCHANGED <<URI, op, pc, filter, strategy, expression, ret, out, err,
                   mgmtRes, iter, stops, mgmtCalls>>
    /\ UNCHANGED <<whVars, ceVars, exVars>>

\* DoOnRowOrError returns: the rows are exhausted, or the stream failed.
IterationEnd(e) ==
    /\ pc = "list" /\ ldState = "iter"
    /\ iterEnd' = e
    /\ ldState' = "defer"
    /\ UNCHANGED <<URI, op, pc, filter, strategy, expression, dbs, ret, out, err,
                   events, mgmtRes, iter, stops, mgmtCalls>>
    /\ UNCHANGED <<whVars, ceVars, exVars>>

\* The return statement, then the deferred iter.Stop().
ListFinish ==
    /\ pc = "list" /\ ldState = "defer"
    /\ IF StopsOnExit(iterEnd)
       THEN iter' = "stopped" /\ stops' = stops + 1
       ELSE UNCHANGED <<iter, stops>>
    /\ ListReturn(ListResult(dbs, iterEnd))
    /\ UNCHANGED <<URI, op, filter, strategy, expression, dbs, events, mgmtRes,
                   iterEnd, mgmtCalls>>
    /\ UNCHANGED <<whVars, ceVars, exVars>>

\* ------------------------------------------------------------ AquireTargets

\* The if / else-if chain over the filter's fields.
SelectStrategy(f) ==
    IF f.DB # <<>> THEN "db"
    ELSE IF Len(f.DBS) > 0 THEN "dbs"
    ELSE IF f.Webhook # "" THEN "webhook"
    ELSE "all"

RECURSIVE DedupSeq(_)
DedupSeq(l) ==
    IF l = <<>> THEN <<>>
    ELSE LET front == DedupSeq(SubSeq(l, 1, Len(l) - 1))
             last == l[Len(l)]
         IN  IF \E i \in 1..Len(front) : front[i] = last THEN front
             ELSE Append(front, last)

\* The explicit list with its repeated names dropped.
ExplicitList_Dedup(f) == DedupSeq(f.DBS)

\* dbs = filter.DBS
ExplicitList(f) == f.DBS

\* The arguments of client.PerformQuery.
WebhookArgs(f, uri) ==
    [endpoint |-> f.Webhook, cluster |-> ClusterNameFromURI(uri).name, label |-> f.Label]

\* targets.DBs assigned before the error is looked at.
TargetsResult_Partial(r) == [DBs |-> r.dbs, err |-> r.err]

\* The tail of AquireTargets: on an error the zero targets and the error.
TargetsResult(r) ==
    IF r.err # NoErr THEN [DBs |-> <<>>, err |-> r.err]
    ELSE [DBs |-> r.dbs, err |-> r.err]

AquireTargets(f) ==
    /\ Idle
    /\ op' = "AquireTargets"
    /\ filter' = f
    /\ strategy' = SelectStrategy(f)
    /\ out' = <<>>
    /\ err' = NoErr
    /\ whCalls' = <<>>
    /\ whRes' = "none"
    /\ NoExec
    /\ CASE SelectStrategy(f) = "db" ->
                FreshList(f.DB) /\ pc' = "list" /\ ret' = NoRet
         [] SelectStrategy(f) = "dbs" ->
                NoList /\ pc' = "check" /\ ret' = [dbs |-> ExplicitList(f), err |-> NoErr]
         [] SelectStrategy(f) = "webhook" ->
                /\ NoList
                /\ ret' = NoRet
                /\ pc' = IF ClusterNameFromURI(URI).panic THEN "panic" ELSE "webhook"
         [] OTHER ->
                FreshList(<<>>) /\ pc' = "list" /\ ret' = NoRet
    /\ UNCHANGED URI

\* client.PerformQuery: the names looked up, or whatever it returns with an error.
PerformQuery(ok, list) ==
    /\ pc = "webhook"
    /\ whCalls' = Append(whCalls, WebhookArgs(filter, URI))
    /\ whRes' = IF ok THEN "ok" ELSE "error"
    /\ ret' = [dbs |-> list, err |-> IF ok THEN NoErr ELSE ErrWebhook]
    /\ pc' = "check"
    /\ UNCHANGED <<URI, op, filter, strategy, out, err>>
    /\ UNCHANGED <<ldVars, ceVars, exVars>>

TargetsReturn ==
    /\ pc = "check"
    /\ out' = TargetsResult(ret).DBs
    /\ err' = TargetsResult(ret).err
    /\ pc' = "done"
    /\ UNCHANGED <<URI, op, filter, strategy, ret>>
    /\ UNCHANGED <<ldVars, whVars, ceVars, exVars>>

\* -------------------------------------------- CreateExecConfiguration, Execute

\* kql, ok := cfgMap.Data["kql"]
HasKql(cfgMap) == "kql" \in DOMAIN cfgMap

\* How far the function gets: each failed step returns before the next.
StepAfterLookup(cfgMap) == IF HasKql(cfgMap) THEN "store" ELSE "done"
StepAfterStore(storeErr) == IF storeErr # NoErr THEN "done" ELSE "generate"

\* KQLFile and JobFile assigned as soon as each is known.
ConfigReturned_Partial(kqlFile, jobFile, e) == [KQLFile |-> kqlFile, JobFile |-> jobFile]

\* The configuration returned: config is the zero value until both steps
\* succeeded, and only then gets KQLFile and JobFile.
ConfigReturned(kqlFile, jobFile, e) ==
    IF e # NoErr THEN EmptyConfig
    ELSE [KQLFile |-> kqlFile, JobFile |-> jobFile]

\* The arguments of wrapper.CreateExecConfiguration.
GeneratorArgs(uri, args, kqlFile) ==
    [uri |-> uri, dbs |-> args.DBs, kqlFile |-> kqlFile,
     failIfDataLoss |-> args.failIfDataLoss]

\* The schema file handed to the runner in place of the job file.
RunArg_KqlFile(cfg) == cfg.KQLFile

\* The argument of RunDeltaKusto.
RunArg(cfg) == cfg.JobFile

CreateExecConfiguration(targets, cfgMap, failIfDataLoss) ==
    /\ Idle
    /\ op' = "CreateExecConfiguration"
    /\ ceArgs' = [DBs |-> targets, cfgMap |-> cfgMap, failIfDataLoss |-> failIfDataLoss]
    /\ storeRes' = NoCall
    /\ genRes' = NoCall
    /\ genArgs' = <<>>
    /\ applyCalls' = <<>>
    /\ applyRes' = "none"
    /\ out' = <<>>
    /\ pc' = StepAfterLookup(cfgMap)
    /\ err' = IF HasKql(cfgMap) THEN NoErr ELSE ErrNoKql
    /\ config' = IF HasKql(cfgMap) THEN EmptyConfig
                 ELSE ConfigReturned("", "", ErrNoKql)
    /\ NoList
    /\ NoTargets
    /\ UNCHANGED URI

\* StoreKQLSchemaToFile: a fresh reference, or an error with whatever path.
StoreKQLSchemaToFile(ok, ref) ==
    /\ pc = "store"
    /\ ok => ref # ""
    /\ LET e == IF ok THEN NoErr ELSE ErrStore
       IN  /\ storeRes' = [called |-> TRUE, ref |-> ref, err |-> e]
           /\ pc' = StepAfterStore(e)
           /\ err' = e
           /\ config' = IF e # NoErr THEN ConfigReturned(ref, "", e) ELSE config
    /\ UNCHANGED <<URI, op, filter, strategy, ret, out, ceArgs, genRes, genArgs>>
    /\ UNCHANGED <<ldVars, whVars, exVars>>

\* wrapper.CreateExecConfiguration, then the return of the configuration.
GenerateJobFile(ok, ref) ==
    /\ pc = "generate"
    /\ ok => ref # ""
    /\ LET e == IF ok THEN NoErr ELSE ErrGen
       IN  /\ genArgs' = Append(genArgs, GeneratorArgs(URI, ceArgs, storeRes.ref))
           /\ genRes' = [called |-> TRUE, ref |-> ref, err |-> e]
           /\ config' = ConfigReturned(storeRes.ref, ref, e)
           /\ err' = e
    /\ pc' = "done"
    /\ UNCHANGED <<URI, op, filter, strategy, ret, out, ceArgs, storeRes>>
    /\ UNCHANGED <<ldVars, whVars, exVars>>

\* Execute on the configuration CreateExecConfiguration returned: one run of
\* RunDeltaKusto, whose error is returned with an empty ClusterTargets.
Execute(ok) ==
    /\ pc = "done" /\ op = "CreateExecConfiguration" /\ err = NoErr
    /\ op' = "Execute"
    /\ applyCalls' = Append(applyCalls, RunArg(config))
    /\ applyRes' = IF ok THEN "ok" ELSE "error"
    /\ err' = IF ok THEN NoErr ELSE ErrApply
    /\ out' = <<>>
    /\ pc' = "done"
    /\ UNCHANGED <<URI, filter, strategy, ret>>
    /\ UNCHANGED <<ldVars, whVars, ceVars>>

\* ---------------------------------------------------------- specification

Next ==
    \/ \E e \in Patterns : CallListDatabases(e)
    \/ Compile
    \/ Mgmt
    \/ \E ev \in RowEvents : RowCallback(ev)
    \/ \E e \in {NoErr, ErrIter} : IterationEnd(e)
    \/ ListFinish
    \/ \E f \in Filters : AquireTargets(f)
    \/ \E ok \in BOOLEAN, list \in DBLists : PerformQuery(ok, list)
    \/ TargetsReturn
    \/ \E targets \in DBLists, cfgMap \in CfgMaps, fdl \in BOOLEAN :
          CreateExecConfiguration(targets, cfgMap, fdl)
    \/ \E ok \in BOOLEAN, ref \in FileRefs : StoreKQLSchemaToFile(ok, ref)
    \/ \E ok \in BOOLEAN, ref \in FileRefs : GenerateJobFile(ok, ref)
    \/ \E ok \in BOOLEAN : Execute(ok)

Spec == Init /\ [][Next]_vars

\* -------------------------------------------------------------- properties

\* The names among ds that the expression matches, in their order.
Matching(expr, ds) == SelectSeq(ds, LAMBDA d : MatchString(expr, d))

HasInlineError(evs) == \E i \in 1..Len(evs) : ~evs[i].row

\* C1: for a valid expression P and rows D emitted by a successful query whose
\* iteration ends without a terminal error, ListDatabases returns, without
\* error, exactly the names of D that P matches, in whatever order the rows
\* came; with the empty expression it returns every name of D.
C1_ListDatabasesExact ==
    (ldState = "returned" /\ mgmtRes = "ok" /\ iterEnd = NoErr) =>
        /\ regexpCompileOK(expression)
        /\ ret.err = NoErr
        /\ ret.dbs = Matching(expression, DataRows(events))
        /\ (expression = <<>> => ret.dbs = DataRows(events))
        /\ (op = "ListDatabases" => pc = "done" /\ out = ret.dbs /\ err = NoErr)

\* C1 witness: "^a" over the rows b, ab keeps ab alone.
C1_Witness ==
    /\ op = "ListDatabases" /\ pc = "done"
    /\ expression = <<"^", "a">>
    /\ DataRows(events) = << <<"b">>, <<"a", "b">> >>
    /\ out = << <<"a", "b">> >>

\* C3: with an expression that is no regular expression, ListDatabases returns
\* an error and no names without one Mgmt call, called directly or through
\* AquireTargets; it never goes on to list the databases.
C3_InvalidPatternFailsFast ==
    (ldState \notin {"none", "compile"} /\ ~regexpCompileOK(expression)) =>
        /\ ldState = "returned"
        /\ ret = [dbs |-> <<>>, err |-> ErrRegexp]
        /\ mgmtCalls = 0 /\ mgmtRes = "none" /\ iter = "none" /\ events = <<>>
        /\ (pc = "done" => out = <<>> /\ err = ErrRegexp)

\* C3 witness: AquireTargets with filter.DB = "(" has returned the error.
C3_Witness ==
    /\ op = "AquireTargets" /\ pc = "done"
    /\ filter.DB = <<"(">>
    /\ err = ErrRegexp /\ mgmtCalls = 0

\* C4: when the chosen strategy fails (Mgmt error, terminal iteration error,
\* webhook error) AquireTargets returns that error and empty targets; a
\* terminal iteration error after matching rows leaves no names at all.
C4_FailureReturnsNoTargets ==
    /\ (op = "AquireTargets" /\ pc = "done"
          /\ (mgmtRes = "error" \/ iterEnd = ErrIter \/ whRes = "error")) =>
            /\ out = <<>>
            /\ err = (IF mgmtRes = "error" THEN ErrMgmt
                      ELSE IF iterEnd = ErrIter THEN ErrIter ELSE ErrWebhook)
    /\ (ldState = "returned" /\ iterEnd = ErrIter) =>
            ret = [dbs |-> <<>>, err |-> ErrIter]

\* C4 witness: the iteration failed after two matching rows were collected.
C4_Witness ==
    /\ op = "AquireTargets" /\ pc = "done"
    /\ iterEnd = ErrIter /\ Len(dbs) = 2
    /\ out = <<>> /\ err = ErrIter

\* C5: with filter.DB empty and filter.DBS non-empty AquireTargets returns
\* filter.DBS as it is, no error, and calls neither Mgmt nor the webhook.
C5_ExplicitListVerbatim ==
    (op = "AquireTargets" /\ pc = "done" /\ filter.DB = <<>> /\ filter.DBS # <<>>) =>
        /\ out = filter.DBS /\ err = NoErr
        /\ ldState = "none" /\ mgmtCalls = 0 /\ whCalls = <<>>

\* C5 witness: an unsorted list with a repeated name, the webhook set as well.
C5_Witness ==
    /\ op = "AquireTargets" /\ pc = "done"
    /\ filter.DB = <<>> /\ filter.Webhook # ""
    /\ out = << <<"b">>, <<"a">>, <<"b">> >>

\* C6: when the config map has "kql" and the store and the generator succeed,
\* the configuration holds the store's reference as KQLFile and the
\* generator's as JobFile; Execute on it runs the engine once, with that
\* JobFile, and succeeds when the engine does.
C6_BuildThenExecute ==
    /\ (op \in {"CreateExecConfiguration", "Execute"} /\ pc = "done"
          /\ storeRes.called /\ storeRes.err = NoErr
          /\ genRes.called /\ genRes.err = NoErr) =>
            /\ config = [KQLFile |-> storeRes.ref, JobFile |-> genRes.ref]
            /\ (op = "CreateExecConfiguration" => err = NoErr)
    /\ (op = "Execute" /\ pc = "done") =>
            /\ applyCalls = <<genRes.ref>>
            /\ (applyRes = "ok" => err = NoErr)

\* C6 witness: the round trip succeeded with two different references.
C6_Witness ==
    /\ op = "Execute" /\ pc = "done" /\ applyRes = "ok"
    /\ storeRes.ref = "/tmp/f1" /\ genRes.ref = "/tmp/f2"
    /\ err = NoErr

\* C7: a CreateExecConfiguration that fails (no "kql", store failure,
\* generator failure) returns an error and the empty configuration, and no
\* step runs after a failed one.
C7_BuildFailsClosed ==
    /\ (op = "CreateExecConfiguration" /\ pc = "done"
          /\ (~HasKql(ceArgs.cfgMap) \/ storeRes.err # NoErr \/ genRes.err # NoErr)) =>
            err # NoErr /\ config = EmptyConfig
    /\ storeRes.called => HasKql(ceArgs.cfgMap)
    /\ genRes.called => storeRes.called /\ storeRes.err = NoErr
    /\ Len(genArgs) = (IF genRes.called THEN 1 ELSE 0)

\* C7 witness: the generator failed after the store had returned a reference.
C7_Witness ==
    /\ op = "CreateExecConfiguration" /\ pc = "done"
    /\ storeRes.ref = "/tmp/f1" /\ genRes.err = ErrGen /\ genRes.ref = "/tmp/f2"
    /\ err = ErrGen

\* C8: the iterator a successful Mgmt call gave is stopped exactly once by the
\* time ListDatabases returns, on every exit path; none is left open.
C8_IteratorReleased ==
    /\ stops <= 1
    /\ (iter = "stopped") = (stops = 1)
    /\ ldState = "returned" =>
          /\ iter # "open"
          /\ (mgmtRes = "ok") = (stops = 1)

\* C8 witness: returned on a terminal error, after an inline error.
C8_Witness ==
    /\ ldState = "returned" /\ iterEnd = ErrIter
    /\ HasInlineError(events)
    /\ iter = "stopped"

\* C10: inline errors do not end the listing and add no name: as long as no
\* terminal error came, the names collected are the matching names of the
\* data rows delivered, those after an inline error included.
C10_InlineErrorsSkipped ==
    /\ iterEnd # ErrInline
    /\ (ldState \in {"iter", "defer", "returned"} /\ mgmtRes = "ok") =>
          dbs = Matching(expression, DataRows(events))
    /\ (ldState = "returned" /\ iterEnd = NoErr /\ HasInlineError(events)) =>
          ret = [dbs |-> Matching(expression, DataRows(events)), err |-> NoErr]

\* C10 witness: a row delivered after an inline error is in the result.
C10_Witness ==
    /\ ldState = "returned" /\ iterEnd = NoErr
    /\ Len(events) = 2 /\ ~events[1].row /\ events[2].row
    /\ ret.dbs = <<events[2].name>>

\* The strategy the filter's fields call for, first match wins.
Expected(f) ==
    IF f.DB # <<>> THEN "db"
    ELSE IF f.DBS # <<>> THEN "dbs"
    ELSE IF f.Webhook # "" THEN "webhook"
    ELSE "all"

\* What shows that strategy s ran, and no other.
Invoked(s) ==
    CASE s = "db" -> ldState # "none" /\ expression = filter.DB /\ whCalls = <<>>
      [] s = "dbs" -> ldState = "none" /\ whCalls = <<>> /\ ret.dbs = filter.DBS
      [] s = "webhook" ->
            /\ ldState = "none"
            /\ whCalls = <<[endpoint |-> filter.Webhook,
                            cluster |-> ClusterNameFromURI(URI).name,
                            label |-> filter.Label]>>
      [] OTHER -> ldState # "none" /\ expression = <<>> /\ whCalls = <<>>

\* C2: for every combination of filter fields AquireTargets runs exactly the
\* strategy the precedence DB, DBS, Webhook, none calls for: once it is over,
\* the catalog was queried with DB, or the list used, or the provider called
\* with (cluster short name, Label), or the catalog queried with "".
C2_StrategyPrecedence ==
    (op = "AquireTargets" /\ pc \in {"done", "panic"}) => Invoked(Expected(filter))

\* The same for the calls that return: only the call that panics in
\* ClusterNameFromURI departs from the precedence.
PrecedenceOnReturn ==
    (op = "AquireTargets" /\ pc = "done") =>
        strategy = Expected(filter) /\ Invoked(Expected(filter))

\* C9: name extraction fails closed: on a URI without "https://" the webhook
\* strategy ends in an error returned by AquireTargets, the provider is not
\* called, and nothing crashes.
C9_NameExtractionFailsClosed ==
    (op = "AquireTargets" /\ strategy = "webhook" /\ ~Contains(URI, Https)) =>
        /\ pc # "panic"
        /\ whCalls = <<>>
        /\ (pc = "done" => err # NoErr /\ out = <<>>)

====
